---- MODULE Spec2Model ----
(***************************************************************************)
(* Gate Pass Submission Service, variant 1 (src/app.py).                   *)
(*                                                                         *)
(* The store is one JSON file that every POST /api/gatepass request loads, *)
(* extends in memory and rewrites.  The file is modelled by its text, a    *)
(* sequence of JSON tokens: save_data writes the text json.dump produces,  *)
(* load_data parses it back with json.load.  A request is a process that   *)
(* walks through submit_gatepass statement by statement, so that requests  *)
(* served by different threads or workers can interleave between the load  *)
(* and the save.                                                           *)
(***************************************************************************)
EXTENDS Naturals, Integers, Sequences, FiniteSets, TLC

\* Number of POST requests the model serves.
NumRequests == 3

\* How many of them are served concurrently (one at a time under SpecSeq).
NumConcurrent == 2

\* Largest integer the JSON number parser of the model looks up.
MaxInt == 6

Requests == 1..NumRequests

VARIABLES
    file,             \* DATA_PATH: [exists, text]
    now,              \* the clock datetime.now() reads
    pc,               \* position of each request inside submit_gatepass
    data,             \* submit_gatepass: what request.get_json() was given
    gatepass_records, \* submit_gatepass: the local list load_data returned
    new_id,           \* submit_gatepass: the local new_id
    email_success,    \* submit_gatepass: the local email_success
    response,         \* what the client of each request received
    trace,            \* history: the steps each request has taken
    loaded,           \* history: the file as each request's load_data saw it
    saved,            \* history: the requests that had called save_data, at each load
    saveCall,         \* history: each request's call of save_data: outcome and argument
    lastSaveBy        \* history: the request that called save_data last (0: none)

vars == <<file, now, pc, data, gatepass_records, new_id, email_success,
          response, trace, loaded, saved, saveCall, lastSaveBy>>

hist == <<loaded, saved, saveCall, lastSaveBy>>

----------------------------------------------------------------------------
(* JSON text *)

P(s) == <<"punct", s>>
K(s) == <<"key", s>>
S(s) == <<"str", s>>
N(n) == <<"num", ToString(n)>>

\* The keys of a stored record, in the order submit_gatepass builds them.
RecordKeys == <<"id", "name", "department", "user_email", "reason", "timestamp", "status">>

\* Tokens one record takes: "{", seven key/value pairs, "}".
RecordTokens == 2 * Len(RecordKeys) + 2

encode_record_dropping_status(rec) ==
    <<P("{")>>
    \o <<K("id"), N(rec.id), K("name"), S(rec.name), K("department"), S(rec.department),
         K("user_email"), S(rec.user_email), K("reason"), S(rec.reason),
         K("timestamp"), S(rec.timestamp), K("status"), S("")>>
    \o <<P("}")>>

\* json.dump of one record (a dict): its items in insertion order.
encode_record(rec) ==
    <<P("{")>>
    \o <<K("id"), N(rec.id), K("name"), S(rec.name), K("department"), S(rec.department),
         K("user_email"), S(rec.user_email), K("reason"), S(rec.reason),
         K("timestamp"), S(rec.timestamp), K("status"), S(rec.status)>>
    \o <<P("}")>>

RECURSIVE encode_items(_)
encode_items(records) ==
    IF records = <<>> THEN <<>>
    ELSE encode_record(Head(records)) \o encode_items(Tail(records))

\* json.dump(data, f, indent=4) of a list of records: the whole text.
json_dump(records) == <<P("[")>> \o encode_items(records) \o <<P("]")>>

\* int(): the number a JSON number token denotes.
ParseInt(s) == CHOOSE n \in 0..MaxInt : ToString(n) = s

IsInt(s) == \E n \in 0..MaxInt : ToString(n) = s

\* Whether the RecordTokens tokens of text from position base + 1 are one record.
RecordAt(text, base) ==
    /\ text[base + 1] = P("{")
    /\ text[base + RecordTokens] = P("}")
    /\ \A i \in 1..Len(RecordKeys) :
          /\ text[base + 2 * i] = K(RecordKeys[i])
          /\ text[base + 2 * i + 1][1] = (IF RecordKeys[i] = "id" THEN "num" ELSE "str")
          /\ RecordKeys[i] = "id" => IsInt(text[base + 2 * i + 1][2])

DecodeRecord(text, base) ==
    [id         |-> ParseInt(text[base + 3][2]),
     name       |-> text[base + 5][2],
     department |-> text[base + 7][2],
     user_email |-> text[base + 9][2],
     reason     |-> text[base + 11][2],
     timestamp  |-> text[base + 13][2],
     status     |-> text[base + 15][2]]

\* Whether json.load accepts the text (otherwise it raises JSONDecodeError).  The
\* file only ever holds a text json_dump produced, or the head of one.
Parses(text) ==
    /\ Len(text) >= 2
    /\ text[1] = P("[")
    /\ text[Len(text)] = P("]")
    /\ (Len(text) - 2) % RecordTokens = 0
    /\ \A i \in 0..(((Len(text) - 2) \div RecordTokens) - 1) :
          RecordAt(text, 1 + i * RecordTokens)

\* json.load(f): the list of records the text denotes.
json_load(text) ==
    [i \in 1..((Len(text) - 2) \div RecordTokens) |->
        DecodeRecord(text, 1 + (i - 1) * RecordTokens)]

----------------------------------------------------------------------------
(* Utility functions *)

NoFile == [exists |-> FALSE, text |-> <<>>]

load_data_uncaught(f) ==
    IF ~f.exists THEN [raised |-> FALSE, value |-> <<>>]
    ELSE IF ~Parses(f.text) THEN [raised |-> TRUE, value |-> <<>>]
    ELSE [raised |-> FALSE, value |-> json_load(f.text)]

\* load_data(): what it returns for the file f, and whether an exception leaves
\* it.  Lines 38-39: no file; lines 43-48: json.load rejects the text (a file that
\* cannot be read at all is caught the same way); line 42: the parsed list.
load_data(f) ==
    IF ~f.exists THEN [raised |-> FALSE, value |-> <<>>]
    ELSE IF ~Parses(f.text) THEN [raised |-> FALSE, value |-> <<>>]
    ELSE [raised |-> FALSE, value |-> json_load(f.text)]

\* How a call of save_data can end: the text written, open() failing before the
\* file is touched, or a write failing after open(.., 'w') truncated the file and
\* cut characters of the text had reached it.  Every failure is caught and printed.
SaveOutcomes(records) ==
    {[kind |-> "written", cut |-> 0], [kind |-> "open_failed", cut |-> 0]}
    \cup {[kind |-> "write_failed", cut |-> k] :
            k \in {0, Len(json_dump(records)) - 1}}

save_data_append(f, records, outcome) ==
    IF outcome.kind = "open_failed" THEN f
    ELSE IF outcome.kind = "write_failed"
         THEN [exists |-> TRUE, text |-> SubSeq(json_dump(records), 1, outcome.cut)]
    ELSE IF f.exists /\ Parses(f.text)
         THEN [exists |-> TRUE,
               text |-> json_dump(json_load(f.text) \o <<records[Len(records)]>>)]
    ELSE [exists |-> TRUE, text |-> json_dump(records)]

\* save_data(data): the file after the call.
save_data(f, records, outcome) ==
    IF outcome.kind = "open_failed" THEN f
    ELSE IF outcome.kind = "write_failed"
         THEN [exists |-> TRUE, text |-> SubSeq(json_dump(records), 1, outcome.cut)]
    ELSE [exists |-> TRUE, text |-> json_dump(records)]

get_next_gatepass_id_no_increment(records) ==
    IF records = <<>> THEN 1 ELSE records[Len(records)].id

get_next_gatepass_id_first(records) ==
    IF records = <<>> THEN 1 ELSE records[1].id + 1

\* get_next_gatepass_id(data): the id of the last record plus 1.
get_next_gatepass_id(records) ==
    IF records = <<>> THEN 1 ELSE records[Len(records)].id + 1

\* datetime.now().isoformat(): two reads of the clock give different texts.
isoformat(t) == ToString(t)

----------------------------------------------------------------------------
(* Request bodies *)

required_fields == {"name", "department", "reason", "user_email"}

EmptyFields == [k \in {} |-> ""]

\* The JSON objects a client sends: complete, complete with an empty name,
\* without name, without user_email.
ObjectBodies ==
    {[shape |-> "object", fields |-> f] :
        f \in [required_fields -> {"A"}]
              \cup {[k \in required_fields |-> IF k = "name" THEN "" ELSE "A"]}
              \cup [required_fields \ {"name"} -> {"A"}]
              \cup [required_fields \ {"user_email"} -> {"A"}]}

\* The bodies a client sends.  shape is what request.get_json() makes of the body:
\*   "unparsable": get_json() raises (the body is not JSON);
\*   "scalar":     null, a number or a boolean;
\*   "sequence":   a JSON array of strings: fields maps the strings it holds;
\*   "object":     a JSON object: fields maps its keys to their values.
Bodies ==
    ObjectBodies
    \cup {[shape |-> "unparsable", fields |-> EmptyFields],
          [shape |-> "scalar", fields |-> EmptyFields],
          [shape |-> "sequence", fields |-> [k \in required_fields |-> k]]}

NoBody == [shape |-> "none", fields |-> EmptyFields]

\* field in data, for the shapes on which "in" is defined.
Contains(body, field) == field \in DOMAIN body.fields

validate_any(body) ==
    IF body.shape = "unparsable" THEN "invalid_json"
    ELSE IF body.shape = "scalar" THEN "type_error"
    ELSE IF \E field \in required_fields : Contains(body, field) THEN "ok"
    ELSE "missing"

\* Lines 119-126: get_json() and the required_fields check.  "in" raises
\* TypeError on None, a number or a boolean, and nothing catches it.
validate(body) ==
    IF body.shape = "unparsable" THEN "invalid_json"
    ELSE IF body.shape = "scalar" THEN "type_error"
    ELSE IF \A field \in required_fields : Contains(body, field) THEN "ok"
    ELSE "missing"

NoResponse == [http |-> 0, status |-> "", gatepass_id |-> 0]

\* What Flask answers when an exception leaves the view function.
InternalServerError == [http |-> 500, status |-> "", gatepass_id |-> 0]

\* Lines 122 and 126.
ErrorResponse == [http |-> 400, status |-> "error", gatepass_id |-> 0]

NoCall == [kind |-> "", records |-> <<>>]

----------------------------------------------------------------------------
(* submit_gatepass, statement by statement *)

next_statement_email_first(step) ==
    CASE step = "validate" -> "load"
      [] step = "load"     -> "assign"
      [] step = "assign"   -> "email"
      [] step = "email"    -> "save"
      [] step = "save"     -> "respond"
      [] step = "respond"  -> "done"

\* The statement that follows each statement of submit_gatepass when it neither
\* returns nor raises.
next_statement(step) ==
    CASE step = "validate" -> "load"
      [] step = "load"     -> "assign"
      [] step = "assign"   -> "save"
      [] step = "save"     -> "email"
      [] step = "email"    -> "respond"
      [] step = "respond"  -> "done"

\* The statements that touch nothing but the request's own locals.  They commute
\* with every step of another request, so the interleavings are taken at the
\* statements that read or write the file: a request at a local statement runs on
\* to its next access of the file before another request takes a step.
LocalStatements == {"validate", "assign", "email", "respond"}

Scheduled(r) == \A q \in Requests \ {r} : pc[q] \notin LocalStatements

\* Request r takes the step `name`; it is answered when `returns`.
Step(r, name, returns) ==
    /\ Scheduled(r)
    /\ trace' = [trace EXCEPT ![r] = Append(@, name)]
    /\ pc' = [pc EXCEPT ![r] = IF returns THEN "done" ELSE next_statement(name)]

\* A client posts a body.  Requests are numbered in the order they arrive.
Receive(r) ==
    /\ pc[r] = "idle"
    /\ \A q \in Requests : q < r => pc[q] # "idle"
    /\ \E body \in Bodies : data' = [data EXCEPT ![r] = body]
    /\ pc' = [pc EXCEPT ![r] = "validate"]
    /\ UNCHANGED <<file, now, gatepass_records, new_id, email_success, response,
                   trace, hist>>

\* Lines 119-126.
Validate(r) ==
    /\ pc[r] = "validate"
    /\ LET v == validate(data[r]) IN
         /\ Step(r, "validate", v # "ok")
         /\ response' = [response EXCEPT ![r] =
                IF v = "ok" THEN @
                ELSE IF v = "type_error" THEN InternalServerError
                ELSE ErrorResponse]
    /\ UNCHANGED <<file, now, data, gatepass_records, new_id, email_success, hist>>

\* Line 129.
Load(r) ==
    /\ pc[r] = "load"
    /\ LET res == load_data(file) IN
         /\ gatepass_records' = [gatepass_records EXCEPT ![r] = res.value]
         /\ Step(r, "load", res.raised)
         /\ response' = [response EXCEPT ![r] =
                IF res.raised THEN InternalServerError ELSE @]
    /\ loaded' = [loaded EXCEPT ![r] = file]
    /\ saved' = [saved EXCEPT ![r] = {q \in Requests : saveCall[q] # NoCall}]
    /\ UNCHANGED <<file, now, data, new_id, email_success, saveCall, lastSaveBy>>

\* Lines 130-144: new_id, the record and the append.  data['name'] raises
\* TypeError unless data is a dict (KeyError if the dict lacks the key).
Assign(r) ==
    /\ pc[r] = "assign"
    /\ new_id' = [new_id EXCEPT ![r] = get_next_gatepass_id(gatepass_records[r])]
    /\ IF data[r].shape = "object" /\ required_fields \subseteq DOMAIN data[r].fields
       THEN /\ gatepass_records' = [gatepass_records EXCEPT ![r] = Append(@,
                   [id         |-> new_id'[r],
                    name       |-> data[r].fields["name"],
                    department |-> data[r].fields["department"],
                    user_email |-> data[r].fields["user_email"],
                    reason     |-> data[r].fields["reason"],
                    timestamp  |-> isoformat(now),
                    status     |-> "pending"])]
            /\ now' = now + 1
            /\ Step(r, "assign", FALSE)
            /\ UNCHANGED response
       ELSE /\ response' = [response EXCEPT ![r] = InternalServerError]
            /\ Step(r, "assign", TRUE)
            /\ UNCHANGED <<gatepass_records, now>>
    /\ UNCHANGED <<file, data, email_success, hist>>

\* Line 145.
Save(r) ==
    /\ pc[r] = "save"
    /\ \E outcome \in SaveOutcomes(gatepass_records[r]) :
         /\ file' = save_data(file, gatepass_records[r], outcome)
         /\ saveCall' = [saveCall EXCEPT ![r] =
                [kind |-> outcome.kind, records |-> gatepass_records[r]]]
    /\ lastSaveBy' = r
    /\ Step(r, "save", FALSE)
    /\ UNCHANGED <<now, data, gatepass_records, new_id, email_success, response,
                   loaded, saved>>

\* Line 148: send_gatepass_email returns True, or False on any exception.
Email(r) ==
    /\ pc[r] = "email"
    /\ \E sent \in BOOLEAN : email_success' = [email_success EXCEPT ![r] = sent]
    /\ Step(r, "email", FALSE)
    /\ UNCHANGED <<file, now, data, gatepass_records, new_id, response, hist>>

\* Lines 150-162.
Respond(r) ==
    /\ pc[r] = "respond"
    /\ response' = [response EXCEPT ![r] =
           [http |-> 200,
            status |-> IF email_success[r] THEN "success" ELSE "warning",
            gatepass_id |-> new_id[r]]]
    /\ Step(r, "respond", FALSE)
    /\ UNCHANGED <<file, now, data, gatepass_records, new_id, email_success, hist>>

\* A fresh deployment: no data file yet.
Init ==
    /\ file = NoFile
    /\ now = 0
    /\ pc = [r \in Requests |-> "idle"]
    /\ data = [r \in Requests |-> NoBody]
    /\ gatepass_records = [r \in Requests |-> <<>>]
    /\ new_id = [r \in Requests |-> 0]
    /\ email_success = [r \in Requests |-> FALSE]
    /\ response = [r \in Requests |-> NoResponse]
    /\ trace = [r \in Requests |-> <<>>]
    /\ loaded = [r \in Requests |-> NoFile]
    /\ saved = [r \in Requests |-> {}]
    /\ saveCall = [r \in Requests |-> NoCall]
    /\ lastSaveBy = 0

Handle(r) ==
    \/ Validate(r)
    \/ Load(r)
    \/ Assign(r)
    \/ Save(r)
    \/ Email(r)
    \/ Respond(r)

\* Requests served concurrently (threads of the development server, or workers).
ReceiveConcurrent(r) ==
    /\ r <= NumConcurrent
    /\ Scheduled(r)
    /\ Receive(r)

Next == \E r \in Requests : ReceiveConcurrent(r) \/ Handle(r)

Spec == Init /\ [][Next]_vars

\* One request at a time: a body is received only when no request is in flight.
ReceiveAlone(r) ==
    /\ \A q \in Requests : pc[q] \in {"idle", "done"}
    /\ Receive(r)

NextSeq == \E r \in Requests : ReceiveAlone(r) \/ Handle(r)

SpecSeq == Init /\ [][NextSeq]_vars

----------------------------------------------------------------------------
(* What the claims speak of *)

Done(r) == pc[r] = "done"

Took(r, step) == \E i \in DOMAIN trace[r] : trace[r][i] = step

HasKey(body, k) == body.shape = "object" /\ k \in DOMAIN body.fields

\* A valid submission: a JSON object with all four required keys.
Valid(body) == \A k \in required_fields : HasKey(body, k)

\* The records a file holds: those its text denotes, none when it has no text
\* that json.load accepts.
StoreRecords(f) == IF f.exists /\ Parses(f.text) THEN json_load(f.text) ELSE <<>>

Unreadable(f) == ~f.exists \/ ~Parses(f.text)

Ids(records) == {records[i].id : i \in DOMAIN records}

MaxId(records) ==
    IF records = <<>> THEN 0
    ELSE CHOOSE m \in Ids(records) : \A n \in Ids(records) : n <= m

Holds(records, rec) == \E i \in DOMAIN records : records[i] = rec

RECURSIVE IsSubsequence(_, _)
IsSubsequence(s, t) ==
    IF s = <<>> THEN TRUE
    ELSE IF t = <<>> THEN FALSE
    ELSE IF Head(s) = Head(t) THEN IsSubsequence(Tail(s), Tail(t))
    ELSE IsSubsequence(s, Tail(t))

IsPrefix(s, t) == Len(s) <= Len(t) /\ SubSeq(t, 1, Len(s)) = s

\* The record a request appended and handed to save_data.
NewRecord(r) == saveCall[r].records[Len(saveCall[r].records)]

----------------------------------------------------------------------------
Lacking(body, orEmpty) ==
    /\ body.shape = "object"
    /\ \E k \in required_fields :
          ~HasKey(body, k) \/ (orEmpty /\ body.fields[k] = "")

\* The request is answered with 400 "error" and has called neither save_data nor
\* the notifier.
Rejected(r) ==
    /\ response[r] = ErrorResponse
    /\ trace[r] = <<"validate">>
    /\ saveCall[r] = NoCall

\* C2 as stated: a JSON object in which a required field is missing or is the
\* empty string is answered with 400 "error" and appends no record.
C2_MissingOrEmptyRejected ==
    \A r \in Requests : (Done(r) /\ Lacking(data[r], TRUE)) => Rejected(r)

\* C2 as amended: a JSON object that lacks a required key is answered with 400
\* "error" by a step that leaves the file as it is, and the request calls neither
\* save_data nor the notifier.
C2_MissingKeyRejected ==
    /\ [](\A r \in Requests : (Done(r) /\ Lacking(data[r], FALSE)) => Rejected(r))
    /\ [][\A r \in Requests :
            (Lacking(data[r], FALSE) /\ pc[r] # pc'[r]) =>
                (pc'[r] = "done" /\ file' = file)]_vars

C2_Witness ==
    \E r \in Requests :
        /\ Done(r)
        /\ Lacking(data[r], FALSE)
        /\ StoreRecords(file) # <<>>
        /\ response[r].http = 400

\* C3 as stated: when the notifier fails for a validated submission, the answer
\* is 200 "warning" with the assigned id, and the file holds the record with that
\* id when the answer is produced (no save_data call has followed the request's).
C3_WarningMeansPersisted ==
    \A r \in Requests :
        (Done(r) /\ Took(r, "email") /\ ~email_success[r] /\ lastSaveBy = r) =>
            /\ response[r] = [http |-> 200, status |-> "warning", gatepass_id |-> new_id[r]]
            /\ new_id[r] \in Ids(StoreRecords(file))

\* C4 as stated: every record the file held before a request (with requests served
\* one at a time: when the request loaded it) is in the file after the request,
\* unchanged and in the same relative order.  Only a request that reaches
\* save_data touches the file.
C4_AppendOnly ==
    \A r \in Requests :
        (Done(r) /\ lastSaveBy = r) =>
            IsSubsequence(StoreRecords(loaded[r]), StoreRecords(file))

\* C5: with requests served one at a time from an empty store, the ids of the
\* records in the file are strictly increasing in list order (hence distinct).
C5_IdsStrictlyIncreasing ==
    LET records == StoreRecords(file) IN
        \A i, j \in DOMAIN records : i < j => records[i].id < records[j].id

C5_Witness == Len(StoreRecords(file)) >= 3

\* C6: when the file is missing or does not parse, load_data returns the empty
\* list and raises nothing, and a valid submission is answered with 200 and id 1.
C6_UnreadableFileLoadsEmpty ==
    \A r \in Requests :
        (Took(r, "load") /\ Unreadable(loaded[r])) =>
            /\ Len(trace[r]) = 2 => (pc[r] = "assign" /\ gatepass_records[r] = <<>>)
            /\ (Done(r) /\ Valid(data[r])) =>
                   (response[r].http = 200 /\ response[r].gatepass_id = 1)

C6_Witness ==
    \E r \in Requests :
        /\ Done(r) /\ Valid(data[r])
        /\ loaded[r].exists /\ ~Parses(loaded[r].text)
        /\ response[r].http = 200

\* C7 as stated: a request is answered with 400 when validation fails (the body
\* does not parse, or a required field is missing) and with 200 otherwise.
C7_Only400Or200 ==
    \A r \in Requests :
        Done(r) =>
            response[r].http =
                (IF data[r].shape = "unparsable" \/ ~Valid(data[r]) THEN 400 ELSE 200)

\* C8: load_data() after save_data(records), with no write in between, returns
\* the sequence that was saved.
C8_SaveLoadRoundTrip ==
    \A r \in Requests :
        (lastSaveBy = r /\ saveCall[r].kind = "written") =>
            load_data(file) = [raised |-> FALSE, value |-> saveCall[r].records]

C8_Witness ==
    \E r \in Requests :
        /\ lastSaveBy = r /\ saveCall[r].kind = "written"
        /\ Len(saveCall[r].records) >= 2
        /\ \E i \in DOMAIN saveCall[r].records : saveCall[r].records[i].name = ""

\* Two valid submissions (a the one that arrived first) that loaded the same file
\* before either called save_data.
SameSnapshot(a, b) ==
    /\ a < b
    /\ Took(a, "load") /\ Took(b, "load")
    /\ b \notin saved[a] /\ a \notin saved[b]
    /\ Valid(data[a]) /\ Valid(data[b])
    /\ loaded[a] = loaded[b]

StatementOrder == <<"validate", "load", "assign", "save", "email", "respond">>

\* C10: a request's steps are validate, assign and append, save_data, the
\* notifier, respond, in that order; the notifier runs at most once, only after
\* validation passed and save_data was called with the new record appended; a
\* request answered with 400 neither called save_data nor the notifier.
C10_StatementOrder ==
    \A r \in Requests :
        /\ IsPrefix(trace[r], StatementOrder)
        /\ Took(r, "email") =>
              /\ validate(data[r]) = "ok"
              /\ saveCall[r] # NoCall
              /\ saveCall[r].records =
                     Append(load_data(loaded[r]).value, NewRecord(r))
              /\ NewRecord(r).id = new_id[r]
        /\ response[r].http = 400 =>
              (~Took(r, "save") /\ ~Took(r, "email") /\ saveCall[r] = NoCall)
        /\ response[r].http = 200 => trace[r] = StatementOrder

C10_Witness ==
    \E r, q \in Requests :
        /\ response[r].http = 200 /\ trace[r] = StatementOrder
        /\ response[q].http = 400 /\ trace[q] = <<"validate">>

====
